---------------------------- MODULE Spec2Model ----------------------------
(***************************************************************************)
(* A model of bump (reubano/bump): the Project class of src/Bump/__init__.py *)
(* and the command line driver run() of src/bump/main.py.                  *)
(*                                                                         *)
(* Python strings are sequences of one-character strings, so that parsing, *)
(* formatting and substitution are computed and not assumed.  Python's     *)
(* None, True and False are the one-element sequences NoneVal, TrueVal and *)
(* FalseVal, which no character string equals.  A call that raises has    *)
(* the exception as its result, and an uncaught exception ends run() with  *)
(* the traceback and status 1 (pc = "raised").  The package is released    *)
(* for Python 2.7 and Python 3, which differ on err.message: the variable  *)
(* python is the interpreter of the behaviour, chosen by Init.             *)
(*                                                                         *)
(* semver is taken with the grammar of Semantic Versioning 2.0.0 (numeric  *)
(* identifiers, of the version and of the prerelease, without leading      *)
(* zeros); grep and sed are taken as the BSD                               *)
(* tools the commands are written for (sed -i '').  The git commands       *)
(* succeed; grep and sed can fail on a file, as the variable faults says,  *)
(* and on a file named with -i that the repository does not have: sh then  *)
(* raises CalledProcessError, in run() (Spec) as in a direct call of       *)
(* set_versions (SpecSet).                                                 *)
(***************************************************************************)
EXTENDS Integers, Sequences, FiniteSets, TLC

(***************************************************************************)
(* Bounds of the model.                                                    *)
(***************************************************************************)
\* largest small version component of the tags a library-level check starts
\* from (9 and 10 are always among the components, for the carry)
MaxNum == 1
\* largest patch number among the tags of a run() invocation's repository
MaxPatch == 1

(***************************************************************************)
(* Python values.                                                          *)
(***************************************************************************)
NoneVal == <<"<None>">>
TrueVal == <<"<True>">>
FalseVal == <<"<False>">>
EmptyStr == <<>>

\* Python truthiness of None, True, False and str values
Truthy(x) == x # NoneVal /\ x # FalseVal /\ x # EmptyStr

\* the exceptions that end a call: an operation that raises has the
\* exception as its result
AttributeError == <<"<AttributeError>">>
TypeError == <<"<TypeError>">>
NotADirectory == <<"<Exception: not a directory>">>
CalledProcessError == <<"<CalledProcessError>">>
IsException(x) ==
    x \in {AttributeError, TypeError, NotADirectory, CalledProcessError}

\* the interpreters the package is released for (setup.py: Python 2.7 and
\* Python 3)
Pythons == {2, 3}

RECURSIVE Concat(_)
\* ''.join(parts)
Concat(parts) ==
    IF parts = <<>> THEN <<>> ELSE Head(parts) \o Concat(Tail(parts))

Digits == <<"0", "1", "2", "3", "4", "5", "6", "7", "8", "9">>
IsDigit(c) == \E i \in 1..10 : Digits[i] = c
DigitVal(c) == (CHOOSE i \in 1..10 : Digits[i] = c) - 1
\* the letters that occur in the tags and versions of the model
Letters == {"a", "b", "c", "e", "f", "i", "n", "o", "r", "s", "t", "u", "v", "x", "y", "V"}
IsAlnum(c) == IsDigit(c) \/ c \in Letters

RECURSIVE NatToStr(_)
\* '%d' % n
NatToStr(n) ==
    IF n < 10 THEN <<Digits[n + 1]>>
    ELSE NatToStr(n \div 10) \o <<Digits[(n % 10) + 1]>>

RECURSIVE StrToNat(_)
\* int(s) for a string of digits
StrToNat(s) ==
    IF s = <<>> THEN 0
    ELSE 10 * StrToNat(SubSeq(s, 1, Len(s) - 1)) + DigitVal(s[Len(s)])

\* index of the first occurrence of character c in s, 0 when there is none
IndexOf(s, c) ==
    IF \E i \in 1..Len(s) : s[i] = c
    THEN CHOOSE i \in 1..Len(s) : s[i] = c /\ \A j \in 1..(i - 1) : s[j] # c
    ELSE 0

RECURSIVE Split(_, _)
\* s.split(c)
Split(s, c) ==
    LET i == IndexOf(s, c)
    IN  IF i = 0 THEN <<s>>
        ELSE <<SubSeq(s, 1, i - 1)>> \o Split(SubSeq(s, i + 1, Len(s)), c)

RECURSIVE LStrip(_, _)
\* s.lstrip(c): every leading c is removed
LStrip(s, c) ==
    IF s # <<>> /\ s[1] = c THEN LStrip(Tail(s), c) ELSE s

(***************************************************************************)
(* semver (the library bump imports): parse, format_version, bump_*.       *)
(***************************************************************************)
\* a numeric identifier: 0, or digits without a leading zero
IsNumeric(s) ==
    /\ s # <<>>
    /\ \A i \in 1..Len(s) : IsDigit(s[i])
    /\ (Len(s) > 1 => s[1] # "0")

\* a dot-separated series of non-empty alphanumeric identifiers
IsIdentifiers(s) ==
    \A part \in { Split(s, ".")[i] : i \in 1..Len(Split(s, ".")) } :
        /\ part # <<>>
        /\ \A i \in 1..Len(part) : IsAlnum(part[i]) \/ part[i] = "-"

\* a prerelease: identifiers, the numeric ones without a leading zero
IsPrerelease(s) ==
    /\ IsIdentifiers(s)
    /\ \A part \in { Split(s, ".")[i] : i \in 1..Len(Split(s, ".")) } :
          (\A i \in 1..Len(part) : IsDigit(part[i])) => IsNumeric(part)

\* the part of s before the build metadata, and the build metadata
BeforeBuild(s) == IF IndexOf(s, "+") = 0 THEN s ELSE SubSeq(s, 1, IndexOf(s, "+") - 1)
BuildOf(s) == IF IndexOf(s, "+") = 0 THEN NoneVal ELSE SubSeq(s, IndexOf(s, "+") + 1, Len(s))
\* the MAJOR.MINOR.PATCH core, and the prerelease
CoreOf(s) ==
    LET b == BeforeBuild(s)
    IN  IF IndexOf(b, "-") = 0 THEN b ELSE SubSeq(b, 1, IndexOf(b, "-") - 1)
PrereleaseOf(s) ==
    LET b == BeforeBuild(s)
    IN  IF IndexOf(b, "-") = 0 THEN NoneVal ELSE SubSeq(b, IndexOf(b, "-") + 1, Len(b))

\* semver.parse(s) succeeds (does not raise ValueError)
ParseOK(s) ==
    /\ s # NoneVal /\ s # TrueVal
    /\ LET core == Split(CoreOf(s), ".")
       IN  /\ Len(core) = 3
           /\ \A i \in 1..3 : IsNumeric(core[i])
    /\ (PrereleaseOf(s) # NoneVal => IsPrerelease(PrereleaseOf(s)))
    /\ (BuildOf(s) # NoneVal => IsIdentifiers(BuildOf(s)))

\* semver.parse(s): the version's fields
Parse(s) ==
    LET core == Split(CoreOf(s), ".")
    IN  [major |-> StrToNat(core[1]), minor |-> StrToNat(core[2]),
         patch |-> StrToNat(core[3]),
         prerelease |-> PrereleaseOf(s), build |-> BuildOf(s)]

\* semver.format_version(major, minor, patch)
FormatVersion(major, minor, patch) ==
    NatToStr(major) \o <<".">> \o NatToStr(minor) \o <<".">> \o NatToStr(patch)

bump_major(version) == FormatVersion(Parse(version).major + 1, 0, 0)
bump_minor(version) == FormatVersion(Parse(version).major, Parse(version).minor + 1, 0)
bump_patch(version) ==
    FormatVersion(Parse(version).major, Parse(version).minor, Parse(version).patch + 1)

\* version_is_valid(version): the parse result (truthy); when semver.parse
\* raises ValueError the handler logs err.message, which Python 2 has, and
\* returns False; Python 3 exceptions have no message attribute, and the
\* handler raises AttributeError
version_is_valid(py, version) ==
    IF ParseOK(version) THEN TrueVal
    ELSE IF py = 2 THEN FalseVal ELSE AttributeError

(***************************************************************************)
(* Text: the lines of a file, grep and sed as set_versions uses them.      *)
(***************************************************************************)
VERSION_WORD == <<"v", "e", "r", "s", "i", "o", "n">>

\* the literal lit occurs in line at position i
LiteralAt(line, i, lit) ==
    /\ i + Len(lit) - 1 <= Len(line)
    /\ \A k \in 1..Len(lit) : line[i + k - 1] = lit[k]

\* grep lit / sed address /lit/ for a pattern without special characters
Contains(line, lit) == \E i \in 1..Len(line) : LiteralAt(line, i, lit)

\* the basic regular expression pat (a version string put into the sed
\* command as it is) matches line at position i: a dot matches any character
RegexAt(line, i, pat) ==
    /\ i + Len(pat) - 1 <= Len(line)
    /\ \A k \in 1..Len(pat) : pat[k] = "." \/ line[i + k - 1] = pat[k]

RECURSIVE SubstAll(_, _, _, _)
\* sed s/pat/rep/g on one line, from position i on
SubstAll(line, i, pat, rep) ==
    IF i > Len(line) THEN <<>>
    ELSE IF pat # <<>> /\ RegexAt(line, i, pat)
         THEN rep \o SubstAll(line, i + Len(pat), pat, rep)
         ELSE <<line[i]>> \o SubstAll(line, i + 1, pat, rep)

RECURSIVE DigitRun(_, _)
\* the length of the longest run of digits of line that starts at i
DigitRun(line, i) ==
    IF i <= Len(line) /\ IsDigit(line[i]) THEN 1 + DigitRun(line, i + 1) ELSE 0

\* the length of the match of [0-9]*\.[0-9]*\.[0-9]* at position i of line,
\* -1 when it does not match there
DottedAt(line, i) ==
    LET d1 == DigitRun(line, i)
        p1 == i + d1
        d2 == DigitRun(line, p1 + 1)
        p2 == p1 + 1 + d2
        d3 == DigitRun(line, p2 + 1)
    IN  IF p1 <= Len(line) /\ line[p1] = "." /\ p2 <= Len(line) /\ line[p2] = "."
        THEN d1 + 1 + d2 + 1 + d3
        ELSE -1

\* grep "[0-9]*\.[0-9]*\.[0-9]*" selects the line
HasDotted(line) == \E i \in 1..Len(line) : DottedAt(line, i) >= 0

RECURSIVE SubstDotted(_, _, _)
\* sed s/[0-9]*\.[0-9]*\.[0-9]*/rep/g on one line, from position i on
SubstDotted(line, i, rep) ==
    IF i > Len(line) THEN <<>>
    ELSE IF DottedAt(line, i) >= 0
         THEN rep \o SubstDotted(line, i + DottedAt(line, i), rep)
         ELSE <<line[i]>> \o SubstDotted(line, i + 1, rep)

\* grep -ine "" file: every line behind its 1-based number and a colon
NumberedLines(lines) == [n \in 1..Len(lines) |-> NatToStr(n) \o <<":">> \o lines[n]]

\* echo lines | grep version | grep -m1 "[0-9]*\.[0-9]*\.[0-9]*": the index of
\* the first selected line, 0 when the pipeline selects none (and fails)
FirstVersionLine(numbered) ==
    LET hit(n) == Contains(numbered[n], VERSION_WORD) /\ HasDotted(numbered[n])
    IN  IF \E n \in 1..Len(numbered) : hit(n)
        THEN CHOOSE n \in 1..Len(numbered) : hit(n) /\ \A m \in 1..(n - 1) : ~hit(m)
        ELSE 0

\* sed -i '' 's/<old>/<new>/g' file: the substitution on every line
SedModeAEveryLine(lines, old, new) ==
    [n \in 1..Len(lines) |-> SubstAll(lines[n], 1, old, new)]

\* sed -i '' '/version/s/<old>/<new>/g' file
SedModeA(lines, old, new) ==
    [n \in 1..Len(lines) |->
        IF Contains(lines[n], VERSION_WORD) THEN SubstAll(lines[n], 1, old, new)
        ELSE lines[n]]

\* sed -i '' '<num>s/[0-9]*\.[0-9]*\.[0-9]*/<new>/g' file
SedModeB(lines, num, new) ==
    [n \in 1..Len(lines) |->
        IF n = num THEN SubstDotted(lines[n], 1, new) ELSE lines[n]]

\* the rewrite of one file when the current version is unknown
RewriteUnknown(lines, new_version) ==
    LET numbered == NumberedLines(lines)
        hit == FirstVersionLine(numbered)
        rep_line_num == StrToNat(Split(numbered[hit], ":")[1])
    IN  IF lines = <<>> \/ hit = 0 THEN lines
        ELSE SedModeB(lines, rep_line_num, new_version)

\* the rewrite of one file by set_versions
RewriteFile(lines, version, new_version) ==
    IF ~Truthy(version) THEN RewriteUnknown(lines, new_version)
    ELSE SedModeA(lines, version, new_version)

(***************************************************************************)
(* fnmatch and the two waves of file patterns.                             *)
(***************************************************************************)
RECURSIVE Glob(_, _)
\* fnmatch(name, pat) for patterns of literal characters and *
Glob(name, pat) ==
    IF pat = <<>> THEN name = <<>>
    ELSE IF pat[1] = "*"
         THEN \E k \in 0..Len(name) : Glob(SubSeq(name, k + 1, Len(name)), Tail(pat))
         ELSE name # <<>> /\ name[1] = pat[1] /\ Glob(Tail(name), Tail(pat))

DOT_PY == <<".", "p", "y">>
SETUP == <<"s", "e", "t", "u", "p">>
INIT_PY == <<"_", "_", "i", "n", "i", "t", "_", "_">> \o DOT_PY

wave_one ==
    { <<"*", ".", "s", "p", "e", "c">>, SETUP \o <<".", "c", "f", "g">>,
      SETUP \o DOT_PY, <<"*", "/">> \o INIT_PY,
      <<"*", ".", "x", "m", "l">>, <<"*", ".", "j", "s", "o", "n">> }
wave_two == { <<"*", ".", "p", "h", "p">>, <<"*">> \o DOT_PY }
switch(wave) == IF wave = 1 THEN wave_one ELSE wave_two

\* gen_versioned_files(wave): the candidate files of a wave
gen_versioned_files(file, files, wave) ==
    IF Truthy(file) THEN {file}
    ELSE { f \in files : \E pat \in switch(wave) : Glob(f, pat) }

(***************************************************************************)
(* Formats (str.format with the one field {version}).                      *)
(***************************************************************************)
FIELD == "{version}"
DEFAULT_TAG_FMT == <<"v", FIELD>>
DEFAULT_TAG_MSG_FMT ==
    <<"V", "e", "r", "s", "i", "o", "n", " ", FIELD, " ", "R", "e", "l", "e", "a", "s", "e">>
DEFAULT_COMMIT_MSG_FMT ==
    <<"b", "u", "m", "p", " ", "t", "o", " ">> \o VERSION_WORD \o <<" ", FIELD>>

\* fmt.format(version=version)
Format(fmt, version) ==
    Concat([k \in 1..Len(fmt) |-> IF fmt[k] = FIELD THEN version ELSE <<fmt[k]>>])

(***************************************************************************)
(* The state: the command line, the git repository, the Project object and *)
(* the position of run().                                                  *)
(***************************************************************************)
VARIABLES
    args,         \* the parsed command line (argparse's namespace)
    tags,         \* git: the tags, oldest first
    head,         \* git: the committed content of every tracked file
    work,         \* the working tree: the content of every tracked file
    stash_stack,  \* git: the stashed working trees
    commits,      \* git: the messages of the commits this invocation made
    created,      \* git: the (tag_text, message) of the tags it created
    project,      \* the Project object: version, bumped, file
    new_version,  \* run()'s local new_version, the result of Project.bump
    error,        \* run()'s local error
    branch,       \* which arm of run()'s if/elif chain was taken
    exit_code,    \* the process's exit status, -1 while it runs
    ops,          \* the side effects performed so far, in order
    start,        \* the repository as the invocation found it
    python,       \* the major version of the interpreter that runs bump
    exception,    \* the exception that ended the call, None while there is none
    faults,       \* per file: whether the commands run on it succeed
    assigned,     \* the waves at whose end self.bumped was assigned, in order
    pc            \* the position in run()

vars == <<args, tags, head, work, stash_stack, commits, created, project,
          new_version, error, branch, exit_code, ops, start, python, exception,
          faults, assigned, pc>>

(***************************************************************************)
(* The git adapter (class Git of git_utils, which Project extends).        *)
(***************************************************************************)
\* Git.current_tag: the most recent tag, None when there is none
current_tag(tags_) == IF tags_ = <<>> THEN NoneVal ELSE tags_[Len(tags_)]
\* Git.is_dirty: there are uncommitted changes
is_dirty(head_, work_) == work_ # head_
\* Git.dirty_files
dirty_files(head_, work_) == { f \in DOMAIN work_ : work_[f] # head_[f] }
\* Git.stash_count
stash_count(stack) == Len(stack)
\* Git.stash: the changes are put away and the tree is HEAD's again
StashPush(stack, head_, work_) == Append(stack, work_)
\* Git.unstash: the changes put away last are applied on the tree again
StashApply(stack, head_, work_) ==
    LET top == stack[Len(stack)]
    IN  [f \in DOMAIN work_ |-> IF top[f] # head_[f] THEN top[f] ELSE work_[f]]

(***************************************************************************)
(* class Project.                                                          *)
(***************************************************************************)
\* Project.current_version
current_version(py, tags_) ==
    LET version == IF Truthy(current_tag(tags_)) THEN LStrip(current_tag(tags_), "v")
                   ELSE NoneVal
        valid == version_is_valid(py, version)
    IN  IF ~Truthy(version) THEN version
        ELSE IF IsException(valid) THEN valid
        ELSE IF ~Truthy(valid) THEN NoneVal
        ELSE version

RECURSIVE VersionsFrom(_, _, _)
\* what the generator Project.versions yields from the k-th tag on: the
\* valid versions in the order of the tags, and at the end the exception
\* when version_is_valid raises
VersionsFrom(py, tags_, k) ==
    IF k > Len(tags_) THEN <<>>
    ELSE LET v == LStrip(tags_[k], "v")
             valid == version_is_valid(py, v)
         IN  IF IsException(valid) THEN <<valid>>
             ELSE IF Truthy(valid) THEN <<v>> \o VersionsFrom(py, tags_, k + 1)
             ELSE VersionsFrom(py, tags_, k + 1)

\* Project.versions: all valid versions parsed from the git tags
versions(py, tags_) == VersionsFrom(py, tags_, 1)

\* the project directory of the model, and os.path.isdir
CURDIR == <<".">>
IsDir(dir_) == dir_ = CURDIR

\* Project.__init__(dir_, file_, version=None): the Project, or the
\* exception it raises
ProjectNew(py, dir_, tags_, file_, version) ==
    IF ~IsDir(dir_) THEN [raises |-> NotADirectory]
    ELSE IF Truthy(version)
         THEN [bumped |-> FALSE, file |-> file_, version |-> version]
         ELSE IF IsException(current_version(py, tags_))
              THEN [raises |-> current_version(py, tags_)]
              ELSE [bumped |-> FALSE, file |-> file_,
                    version |-> current_version(py, tags_)]
\* the call ended with an exception
Raised(result) == "raises" \in DOMAIN result

\* what Project.bump's switch calls for a bump type
SwitchGet(bump_type, version) ==
    CASE bump_type = "m" -> bump_major(version)
      [] bump_type = "n" -> bump_minor(version)
      [] bump_type = "p" -> bump_patch(version)

\* Project.bump(bump_type): the new version, None, or the exception that
\* semver raises on the version None or that set(self.versions) raises
Bump(py, version, bump_type, tags_) ==
    LET new == SwitchGet(bump_type, version)
        history == versions(py, tags_)
    IN  IF version = NoneVal THEN TypeError
        ELSE IF \E k \in 1..Len(history) : IsException(history[k])
        THEN history[Len(history)]
        ELSE IF \E k \in 1..Len(history) : history[k] = new THEN NoneVal
        ELSE new

(***************************************************************************)
(* The inputs of an invocation: repositories and command lines.            *)
(***************************************************************************)
SETUP_PY == SETUP \o DOT_PY
MOD_PY == <<"m">> \o DOT_PY
\* a file name that -i can give and the repository does not have
GONE_PY == <<"n">> \o DOT_PY
README == <<"R">>
FileNames == {SETUP_PY, MOD_PY, README}
\* every command run on every file succeeds
NoFaults == [f \in FileNames |-> "ok"]

(***************************************************************************)
(* Project.set_versions.  sh raises when its command fails                 *)
(* (CalledProcessError, which set_versions catches around its greps and    *)
(* not around sed).                                                        *)
(***************************************************************************)
\* what can be wrong with a file of the tree: nothing, no command can read
\* it (no permission), or it can be read and not written
FaultKinds == {"ok", "unreadable", "unwritable"}
\* sh('grep -ine "" file', True) raises
GrepFails(fault) == fault = "unreadable"
\* sh("sed -i '' ... file") raises
SedFails(fault) == fault # "ok"

\* Git.files: the tracked files, in the order of git ls-files
files == <<README, MOD_PY, SETUP_PY>>

\* the candidates of a wave in the order gen_versioned_files yields them
Candidates(file, wave) ==
    LET Selected(f) == \E pat \in switch(wave) : Glob(f, pat)
    IN  IF Truthy(file) THEN <<file>> ELSE SelectSeq(files, Selected)

\* the body of the loop of set_versions for one file with content lines:
\* the content the file is left with, and whether sh raised out of the body
SetVersionsFile(lines, fault, version, new) ==
    IF ~Truthy(version)
    THEN IF GrepFails(fault) \/ lines = <<>>
            \/ FirstVersionLine(NumberedLines(lines)) = 0
         THEN [lines |-> lines, raised |-> FALSE]
         ELSE IF SedFails(fault) THEN [lines |-> lines, raised |-> TRUE]
              ELSE [lines |-> RewriteUnknown(lines, new), raised |-> FALSE]
    ELSE IF SedFails(fault) THEN [lines |-> lines, raised |-> TRUE]
         ELSE [lines |-> SedModeA(lines, version, new), raised |-> FALSE]

\* a candidate named with -i that is no file of the tree: every command run
\* on it fails (No such file or directory) and it has no content
FaultOf(tree, flt, f) == IF f \in DOMAIN tree THEN flt[f] ELSE "unreadable"
LinesOf(tree, f) == IF f \in DOMAIN tree THEN tree[f] ELSE <<>>

RECURSIVE SetVersionsLoop(_, _, _, _, _, _)
\* for file_ in self.gen_versioned_files(wave), from the k-th candidate on:
\* the tree the loop leaves, and whether an exception ended it
SetVersionsLoop(tree, flt, cands, k, version, new) ==
    IF k > Len(cands) THEN [tree |-> tree, raised |-> FALSE]
    ELSE LET f == cands[k]
             r == SetVersionsFile(LinesOf(tree, f), FaultOf(tree, flt, f),
                                  version, new)
         IN  IF r.raised THEN [tree |-> tree, raised |-> TRUE]
             ELSE SetVersionsLoop(IF f \in DOMAIN tree
                                  THEN [tree EXCEPT ![f] = r.lines] ELSE tree,
                                  flt, cands, k + 1, version, new)

\* Project.set_versions(new_version, wave): the tree and the Project it
\* leaves, whether it raised, and whether it assigned self.bumped
set_versions(tree, flt, head_, proj, new, wave) ==
    IF ~Truthy(new)
    THEN [tree |-> tree, project |-> proj, raised |-> FALSE, assigned |-> FALSE]
    ELSE LET r == SetVersionsLoop(tree, flt, Candidates(proj.file, wave), 1,
                                  proj.version, new)
         IN  [tree |-> r.tree,
              project |-> IF r.raised THEN proj
                          ELSE [proj EXCEPT !.bumped = is_dirty(head_, r.tree)],
              raised |-> r.raised,
              assigned |-> ~r.raised]

\* a line that declares version v, and a line that has v without the word
DeclLine(v) == VERSION_WORD \o <<" ", "=", " ">> \o v
NoteLine(v) == <<"#", " ">> \o v

\* committed trees: the version declared in setup.py (a wave 1 file), only in
\* m.py (a wave 2 file), or in no line with the word version
TreeKinds == {"setup", "module", "nowhere"}
Tree(kind, v) ==
    [f \in FileNames |->
        CASE f = SETUP_PY -> IF kind = "setup" THEN <<NoteLine(v), DeclLine(v)>>
                             ELSE <<NoteLine(v)>>
          [] f = MOD_PY -> IF kind = "module" THEN <<DeclLine(v), NoteLine(v)>>
                           ELSE <<NoteLine(v)>>
          [] f = README -> << <<"x">> >>]
\* an uncommitted edit of the README
Edited(tree) == [tree EXCEPT ![README] = << <<"y">> >>]

V(major, minor, patch) == FormatVersion(major, minor, patch)
TagOf(version) == <<"v">> \o version
BAD_TAG == <<"v", "f", "o", "o">>
BAD_VERSION == <<"1", ".", "x">>

\* the tags a repository of a run() invocation may have
TagPool == { TagOf(V(1, 0, p)) : p \in 0..MaxPatch }
           \cup { TagOf(V(1, 1, 0)), TagOf(V(2, 0, 0)), BAD_TAG }
Histories ==
    {<<>>} \cup { <<t>> : t \in TagPool }
           \cup { h \in TagPool \X TagPool : h[1] # h[2] }

NoBump == "None"
BumpTypes == {"m", "n", "p"}
\* -t and -s exclude each other; -s and -v both store into args.version; dir
\* is the project directory or the path of a file
CommandLines ==
    { a \in [bump_type : BumpTypes \cup {NoBump},
             version : {NoneVal, TrueVal, EmptyStr, V(3, 0, 0), BAD_VERSION},
             skip_commit : BOOLEAN, tag : BOOLEAN, push : BOOLEAN, stash : BOOLEAN,
             file : {NoneVal, MOD_PY, GONE_PY},
             dir : {CURDIR, SETUP_PY},
             tag_format : {DEFAULT_TAG_FMT},
             tag_msg_format : {DEFAULT_TAG_MSG_FMT},
             commit_msg_format : {DEFAULT_COMMIT_MSG_FMT}] :
        a.bump_type # NoBump => a.version \in {NoneVal, TrueVal} }

\* the version the files of a repository declare: the current tag's, if valid
Declared(tags_) ==
    IF tags_ # <<>> /\ ParseOK(LStrip(current_tag(tags_), "v"))
    THEN LStrip(current_tag(tags_), "v")
    ELSE V(1, 0, 0)

\* the faults the rewrite stage of an invocation can find: none, or sed
\* cannot rewrite setup.py (a wave 1 candidate) or m.py (a wave 2 candidate)
RunFaults ==
    {NoFaults} \cup { [NoFaults EXCEPT ![f] = "unwritable"] : f \in {SETUP_PY, MOD_PY} }

NoProject == [bumped |-> FALSE, file |-> NoneVal, version |-> NoneVal]

Init ==
    /\ args \in CommandLines
    /\ tags \in Histories
    /\ \E kind \in TreeKinds, dirty \in BOOLEAN :
        /\ head = Tree(kind, Declared(tags))
        /\ work = IF dirty THEN Edited(head) ELSE head
    /\ stash_stack = <<>>
    /\ commits = <<>>
    /\ created = <<>>
    /\ project = NoProject
    /\ new_version = NoneVal
    /\ error = NoneVal
    /\ branch = "none"
    /\ exit_code = -1
    /\ ops = <<>>
    /\ start = [tags |-> tags, head |-> head, work |-> work]
    /\ python \in Pythons
    /\ exception = NoneVal
    /\ faults = NoFaults
    /\ assigned = <<>>
    /\ pc = "run"

(***************************************************************************)
(* run() of main.py, statement by statement.                               *)
(***************************************************************************)
NoTagsYet == <<"NoTagsYet">>
CurrentVersion == <<"CurrentVersion">>
DirtyWorkingTree == <<"DirtyWorkingTree">>
RewriteNotFound == <<"RewriteNotFound">>
InvalidVersion == <<"InvalidVersion">>
NothingToTag == <<"NothingToTag">>
NothingToPush == <<"NothingToPush">>

\* project = Project(args.dir, args.file, verbose=args.verbose)
Construct ==
    /\ pc = "run"
    /\ LET new == ProjectNew(python, args.dir, tags, args.file, NoneVal)
       IN  IF Raised(new)
           THEN /\ exception' = new.raises
                /\ exit_code' = 1
                /\ pc' = "raised"
                /\ UNCHANGED project
           ELSE /\ project' = new
                /\ pc' = "show_version"
                /\ UNCHANGED <<exception, exit_code>>
    /\ UNCHANGED <<start, python, faults, assigned,
                   args, tags, head, work, stash_stack, commits, created,
                   new_version, error, branch, ops>>

\* if args.version: log 'bump v<__version__>' and exit(0)
ShowVersion ==
    /\ pc = "show_version"
    /\ IF Truthy(args.version)
       THEN /\ ops' = Append(ops, "show_version")
            /\ exit_code' = 0
            /\ pc' = "done"
       ELSE /\ pc' = "dispatch"
            /\ UNCHANGED <<ops, exit_code>>
    /\ UNCHANGED <<start, python, exception, faults, assigned,
                   args, tags, head, work, stash_stack, commits, created, project,
                   new_version, error, branch>>

\* the dispatch of run() without the test for uncommitted changes
RunBranchNoDirtyTest(a, proj, dirty) ==
    IF ~Truthy(proj.version) /\ a.bump_type # NoBump THEN "no_tags"
    ELSE IF Truthy(proj.version) /\ a.bump_type = NoBump /\ ~Truthy(a.version)
         THEN "current"
    ELSE IF dirty /\ a.stash THEN "stash"
    ELSE IF Truthy(proj.version) /\ a.bump_type # NoBump THEN "bump"
    ELSE IF Truthy(a.version) THEN "raises"
    ELSE "nothing"

\* the arm of run()'s if/elif chain that is taken.  The test of the sixth
\* arm calls project.version_is_valid, which no Project has (version_is_valid
\* is a function of the module): with an args.version it raises
\* AttributeError, and the arms of main.py:124-128 are never taken
RunBranch(a, proj, dirty) ==
    IF ~Truthy(proj.version) /\ a.bump_type # NoBump THEN "no_tags"
    ELSE IF Truthy(proj.version) /\ a.bump_type = NoBump /\ ~Truthy(a.version)
         THEN "current"
    ELSE IF dirty /\ ~a.stash THEN "dirty"
    ELSE IF dirty THEN "stash"
    ELSE IF Truthy(proj.version) /\ a.bump_type # NoBump THEN "bump"
    ELSE IF Truthy(a.version) THEN "raises"
    ELSE "nothing"

\* the loop body with a set_versions that leaves self.bumped alone
CallSetVersionsKeepsBumped(new, wave, flt) ==
    \E r \in {set_versions(work, flt, head, project, new, wave)} :
        /\ work' = r.tree
        /\ ops' = Append(ops, IF wave = 1 THEN "wave1" ELSE "wave2")
        /\ exception' = IF r.raised THEN CalledProcessError ELSE exception
        /\ exit_code' = IF r.raised THEN 1 ELSE exit_code
        /\ UNCHANGED <<project, assigned>>

\* the loop body for one wave: project.set_versions(new_version, wave),
\* which no try of run() is around, on files with the faults flt; r is the
\* outcome of the one call (the singleton set has TLC compute it once)
CallSetVersions(new, wave, flt) ==
    \E r \in {set_versions(work, flt, head, project, new, wave)} :
        /\ work' = r.tree
        /\ project' = r.project
        /\ ops' = Append(ops, IF wave = 1 THEN "wave1" ELSE "wave2")
        /\ assigned' = IF r.assigned THEN Append(assigned, wave) ELSE assigned
        /\ exception' = IF r.raised THEN CalledProcessError ELSE exception
        /\ exit_code' = IF r.raised THEN 1 ELSE exit_code

\* error = None, then the if/elif chain: the arm taken, but for the calls of
\* the bump arm, which are the next steps
Dispatch ==
    /\ pc = "dispatch"
    /\ LET b == RunBranch(args, project, is_dirty(head, work))
       IN  /\ branch' = b
           /\ error' = CASE b = "no_tags" -> NoTagsYet
                         [] b = "current" -> CurrentVersion
                         [] b = "dirty" -> DirtyWorkingTree
                         [] OTHER -> NoneVal
           /\ IF b = "stash"
              THEN /\ stash_stack' = StashPush(stash_stack, head, work)
                   /\ work' = head
                   /\ ops' = Append(ops, "stash")
              ELSE UNCHANGED <<stash_stack, work, ops>>
           /\ IF b = "raises"
              THEN exception' = AttributeError /\ exit_code' = 1
              ELSE UNCHANGED <<exception, exit_code>>
           /\ pc' = CASE b = "bump" -> "bump"
                      [] b = "raises" -> "raised"
                      [] OTHER -> "check_error"
    /\ UNCHANGED <<start, python, faults, assigned, project,
                   args, tags, head, commits, created, new_version>>

\* new_version = project.bump(args.bump_type)
CallBump ==
    /\ pc = "bump"
    /\ LET new == Bump(python, project.version, args.bump_type, tags)
       IN  IF IsException(new)
           THEN /\ exception' = new
                /\ exit_code' = 1
                /\ pc' = "raised"
                /\ UNCHANGED new_version
           ELSE /\ new_version' = new
                /\ pc' = "wave1"
                /\ UNCHANGED <<exception, exit_code>>
    /\ ops' = Append(ops, "bump")
    /\ UNCHANGED <<start, python, faults, assigned,
                   args, tags, head, work, stash_stack, commits, created, project,
                   error, branch>>

\* the first iteration of for wave in [1, 2]: set_versions, break if bumped.
\* The files are as faults says from here on: a file can have lost its write
\* permission at any time before the first sed runs
Wave1 ==
    /\ pc = "wave1"
    /\ \E flt \in RunFaults :
          /\ faults' = flt
          /\ CallSetVersions(new_version, 1, flt)
    /\ pc' = IF IsException(exception') THEN "raised"
             ELSE IF project'.bumped THEN "check_error" ELSE "wave2"
    /\ UNCHANGED <<start, python,
                   args, tags, head, stash_stack, commits, created, new_version,
                   error, branch>>

\* the second iteration, and the loop's else clause when it did not break
Wave2 ==
    /\ pc = "wave2"
    /\ CallSetVersions(new_version, 2, faults)
    /\ error' = IF IsException(exception') \/ project'.bumped
                THEN error ELSE RewriteNotFound
    /\ pc' = IF IsException(exception') THEN "raised" ELSE "check_error"
    /\ UNCHANGED <<start, python, faults,
                   args, tags, head, stash_stack, commits, created, new_version,
                   branch>>

\* if error: exit(error)
CheckError ==
    /\ pc = "check_error"
    /\ IF Truthy(error)
       THEN exit_code' = 1 /\ pc' = "done"
       ELSE exit_code' = exit_code /\ pc' = "commit"
    /\ UNCHANGED <<start, python, exception, faults, assigned,
                   args, tags, head, work, stash_stack, commits, created, project,
                   new_version, error, branch, ops>>

\* the commit step with the message formatted from the version of the project
CommitOldVersion ==
    /\ pc = "commit"
    /\ IF project.bumped /\ ~args.skip_commit
       THEN /\ commits' = Append(commits, Format(args.commit_msg_format, project.version))
            /\ head' = [f \in DOMAIN head |->
                           IF f \in dirty_files(head, work) THEN work[f] ELSE head[f]]
            /\ ops' = ops \o <<"add", "commit">>
       ELSE UNCHANGED <<commits, head, ops>>
    /\ pc' = "unstash"
    /\ UNCHANGED <<start, python, exception, faults, assigned,
                   args, tags, work, stash_stack, created, project, new_version,
                   error, branch, exit_code>>

\* if project.bumped and not args.skip_commit: add the dirty files and commit
Commit ==
    /\ pc = "commit"
    /\ IF project.bumped /\ ~args.skip_commit
       THEN /\ commits' = Append(commits, Format(args.commit_msg_format, new_version))
            /\ head' = [f \in DOMAIN head |->
                           IF f \in dirty_files(head, work) THEN work[f] ELSE head[f]]
            /\ ops' = ops \o <<"add", "commit">>
       ELSE UNCHANGED <<commits, head, ops>>
    /\ pc' = "unstash"
    /\ UNCHANGED <<start, python, exception, faults, assigned,
                   args, tags, work, stash_stack, created, project, new_version,
                   error, branch, exit_code>>

\* run() without the unstash step
UnstashSkipped ==
    /\ pc = "unstash"
    /\ pc' = "tag"
    /\ UNCHANGED <<start, python, exception, faults, assigned, args, tags, head, work, stash_stack, commits,
                   created, project, new_version, error, branch, exit_code, ops>>

\* if project.stash_count: project.unstash()
Unstash ==
    /\ pc = "unstash"
    /\ IF stash_count(stash_stack) > 0
       THEN /\ work' = StashApply(stash_stack, head, work)
            /\ stash_stack' = SubSeq(stash_stack, 1, Len(stash_stack) - 1)
            /\ ops' = Append(ops, "unstash")
       ELSE UNCHANGED <<work, stash_stack, ops>>
    /\ pc' = "tag"
    /\ UNCHANGED <<start, python, exception, faults, assigned,
                   args, tags, head, commits, created, project, new_version, error,
                   branch, exit_code>>

\* the tag decision without the test of project.bumped
TagWantedUnbumped(a, proj) ==
    LET tag1 == Truthy(proj.version)
        tag2 == Truthy(a.version) /\ ~Truthy(proj.version)
    IN  a.tag /\ (tag1 \/ tag2)

\* tag = args.tag and (tag1 or tag2)
TagWanted(a, proj) ==
    LET tag1 == proj.bumped /\ Truthy(proj.version)
        tag2 == Truthy(a.version) /\ ~Truthy(proj.version)
    IN  a.tag /\ (tag1 \/ tag2)

\* version = (project.version or args.version)
TagVersion(a, proj) == IF Truthy(proj.version) THEN proj.version ELSE a.version

\* if tag: project.tag(message, tag_text); elif args.tag: exit(...)
Tag ==
    /\ pc = "tag"
    /\ IF TagWanted(args, project)
       THEN /\ created' = Append(created,
                    [tag_text |-> Format(args.tag_format, TagVersion(args, project)),
                     message |-> Format(args.tag_msg_format, TagVersion(args, project))])
            /\ tags' = Append(tags, Format(args.tag_format, TagVersion(args, project)))
            /\ ops' = Append(ops, "tag")
            /\ pc' = "push"
            /\ UNCHANGED <<error, exit_code>>
       ELSE IF args.tag
            THEN /\ error' = NothingToTag
                 /\ exit_code' = 1
                 /\ pc' = "done"
                 /\ UNCHANGED <<created, tags, ops>>
            ELSE /\ pc' = "push"
                 /\ UNCHANGED <<created, tags, ops, error, exit_code>>
    /\ UNCHANGED <<start, python, exception, faults, assigned,
                   args, head, work, stash_stack, commits, project, new_version,
                   branch>>

\* if project.bumped and args.push: project.push(); elif args.push: exit(...)
Push ==
    /\ pc = "push"
    /\ IF project.bumped /\ args.push
       THEN /\ ops' = Append(ops, "push")
            /\ pc' = "exit"
            /\ UNCHANGED <<error, exit_code>>
       ELSE IF args.push
            THEN /\ error' = NothingToPush
                 /\ exit_code' = 1
                 /\ pc' = "done"
                 /\ UNCHANGED ops
            ELSE /\ pc' = "exit"
                 /\ UNCHANGED <<ops, error, exit_code>>
    /\ UNCHANGED <<start, python, exception, faults, assigned,
                   args, tags, head, work, stash_stack, commits, created, project,
                   new_version, branch>>

\* exit(0)
Exit ==
    /\ pc = "exit"
    /\ exit_code' = 0
    /\ pc' = "done"
    /\ UNCHANGED <<start, python, exception, faults, assigned,
                   args, tags, head, work, stash_stack, commits, created, project,
                   new_version, error, branch, ops>>

Next ==
    \/ Construct \/ ShowVersion \/ Dispatch \/ CallBump \/ Wave1 \/ Wave2
    \/ CheckError \/ Commit \/ Unstash \/ Tag \/ Push \/ Exit

Spec == Init /\ [][Next]_vars

(***************************************************************************)
(* The library used directly: a Project is constructed on a repository and *)
(* Project.bump is called on it.                                           *)
(***************************************************************************)
LibNums == (0..MaxNum) \cup {9, 10}
LibVersions == { V(a, b, c) : a \in LibNums, b \in LibNums, c \in LibNums }
RC == <<"-", "r", "c">>
\* tags of valid versions, a tag with a prerelease, a tag with two v, a tag
\* that is no version
LibTags ==
    { TagOf(v) : v \in LibVersions }
    \cup { TagOf(V(1, 0, 0) \o RC), <<"v">> \o TagOf(V(1, 0, 1)), BAD_TAG }
\* histories of one and of two tags, and histories of three tags that start
\* with the tag that is no version
LibHistories ==
    { <<t>> : t \in LibTags } \cup (LibTags \X LibTags)
    \cup { <<BAD_TAG, TagOf(V(a, b, 0)), TagOf(V(c, d, 0))>> :
             a \in 0..MaxNum, b \in 0..MaxNum, c \in 0..MaxNum, d \in 0..MaxNum }

LibInit ==
    /\ args \in { a \in CommandLines :
                    /\ a.bump_type # NoBump /\ a.version = NoneVal /\ a.file = NoneVal
                    /\ ~a.skip_commit /\ ~a.tag /\ ~a.push /\ ~a.stash }
    /\ tags \in LibHistories
    /\ head = Tree("setup", Declared(tags))
    /\ work = head
    /\ stash_stack = <<>>
    /\ commits = <<>>
    /\ created = <<>>
    /\ project = NoProject
    /\ new_version = NoneVal
    /\ error = NoneVal
    /\ branch = "none"
    /\ exit_code = -1
    /\ ops = <<>>
    /\ start = [tags |-> tags, head |-> head, work |-> work]
    /\ python \in Pythons
    /\ exception = NoneVal
    /\ faults = NoFaults
    /\ assigned = <<>>
    /\ pc = "lib"

\* project = Project(dir_)
LibConstruct ==
    /\ pc = "lib"
    /\ LET new == ProjectNew(python, args.dir, tags, args.file, NoneVal)
       IN  IF Raised(new)
           THEN /\ exception' = new.raises
                /\ pc' = "lib_no_project"
                /\ UNCHANGED project
           ELSE /\ project' = new
                /\ pc' = "lib_ready"
                /\ UNCHANGED exception
    /\ UNCHANGED <<start, python, faults, assigned,
                   args, tags, head, work, stash_stack, commits, created,
                   new_version, error, branch, exit_code, ops>>

\* project.bump(bump_type) returns
LibBump ==
    /\ pc = "lib_ready"
    /\ ~IsException(Bump(python, project.version, args.bump_type, tags))
    /\ new_version' = Bump(python, project.version, args.bump_type, tags)
    /\ ops' = Append(ops, "bump")
    /\ pc' = "lib_bumped"
    /\ UNCHANGED <<start, python, exception, faults, assigned,
                   args, tags, head, work, stash_stack, commits, created,
                   project, error, branch, exit_code>>

\* project.bump(bump_type) raises: semver on the version None, or
\* version_is_valid on a tag that is no version
LibBumpRaises ==
    /\ pc = "lib_ready"
    /\ IsException(Bump(python, project.version, args.bump_type, tags))
    /\ exception' = Bump(python, project.version, args.bump_type, tags)
    /\ ops' = Append(ops, "bump")
    /\ pc' = "lib_raised"
    /\ UNCHANGED <<start, python, faults, assigned,
                   args, tags, head, work, stash_stack, commits, created,
                   project, new_version, error, branch, exit_code>>

LibNext == LibConstruct \/ LibBump \/ LibBumpRaises

SpecLib == LibInit /\ [][LibNext]_vars

(***************************************************************************)
(* The library used directly: Project.set_versions is called once, for    *)
(* either wave, on repositories with files of every text of LinePool.      *)
(***************************************************************************)
\* the longest file of the repositories set_versions is called on
MaxLines == 2

X_WORD == <<"1", "x", "0", "y", "0">>
\* the lines of the files: a declaration of 1.0.0, 1.0.0 without the word
\* version, text that 1.0.0 matches as a regular expression, a declaration
\* followed by a second version, two dots without digits, and other text
LinePool ==
    { DeclLine(V(1, 0, 0)), NoteLine(V(1, 0, 0)),
      VERSION_WORD \o <<" ">> \o X_WORD,
      DeclLine(V(1, 0, 0)) \o <<" ">> \o V(9, 9, 9),
      VERSION_WORD \o <<" ", "a", ".", ".", "b">>,
      <<"#", " ", "n">> }
Texts == UNION { [1..n -> LinePool] : n \in 0..MaxLines }
\* the repositories: any text in setup.py, a declaration or a note in m.py
SetTrees ==
    { [f \in FileNames |->
          CASE f = SETUP_PY -> t
            [] f = MOD_PY -> <<m>>
            [] OTHER -> << <<"x">> >>] :
      t \in Texts, m \in {DeclLine(V(1, 0, 0)), NoteLine(V(1, 0, 0))} }
\* no fault, or one faulty file
FaultMaps ==
    { [NoFaults EXCEPT ![f] = k] : f \in {SETUP_PY, MOD_PY}, k \in FaultKinds }

SetInit ==
    /\ args \in { a \in CommandLines :
                    /\ a.bump_type = NoBump /\ a.version = NoneVal
                    /\ ~a.skip_commit /\ ~a.tag /\ ~a.push /\ ~a.stash }
    /\ tags \in { <<>>, <<TagOf(V(1, 0, 0))>> }
    /\ head \in SetTrees
    /\ work = head
    /\ stash_stack = <<>>
    /\ commits = <<>>
    /\ created = <<>>
    /\ project = NoProject
    /\ new_version \in {NoneVal, V(1, 0, 1)}
    /\ error = NoneVal
    /\ branch = "none"
    /\ exit_code = -1
    /\ ops = <<>>
    /\ start = [tags |-> tags, head |-> head, work |-> work]
    /\ python \in Pythons
    /\ exception = NoneVal
    /\ faults \in FaultMaps
    /\ assigned = <<>>
    /\ pc = "lib"

\* project.set_versions(new_version, wave), for either wave; when sh raises
\* (__init__.py:165, under no try) the call ends with CalledProcessError
LibSetVersions ==
    /\ pc = "lib_ready"
    /\ \E wave \in {1, 2} :
          \E r \in {set_versions(work, faults, head, project, new_version, wave)} :
              /\ work' = r.tree
              /\ project' = r.project
              /\ assigned' = IF r.assigned THEN Append(assigned, wave) ELSE assigned
              /\ ops' = Append(ops, IF wave = 1 THEN "wave1" ELSE "wave2")
              /\ exception' = IF r.raised THEN CalledProcessError ELSE exception
              /\ pc' = IF r.raised THEN "lib_set_raised" ELSE "lib_set"
    /\ UNCHANGED <<start, python, faults, args, tags, head, stash_stack, commits,
                   created, new_version, error, branch, exit_code>>

SetNext == LibConstruct \/ LibSetVersions

SpecSet == SetInit /\ [][SetNext]_vars

(***************************************************************************)
(* Properties.                                                              *)
(***************************************************************************)
\* the side effects on the repository that ops records
Effects == {"stash", "wave1", "wave2", "add", "commit", "unstash", "tag", "push"}
Did(op) == \E k \in 1..Len(ops) : ops[k] = op
\* nothing was done to the repository or to the files
Untouched ==
    /\ \A k \in 1..Len(ops) : ops[k] \notin Effects
    /\ work = start.work /\ head = start.head /\ tags = start.tags
    /\ stash_stack = <<>> /\ commits = <<>> /\ created = <<>>

\* the components of the version the project was constructed with
Cur == Parse(project.version)
\* the version the bump class asks for, from the components
Incremented ==
    CASE args.bump_type = "m" -> V(Cur.major + 1, 0, 0)
      [] args.bump_type = "n" -> V(Cur.major, Cur.minor + 1, 0)
      [] args.bump_type = "p" -> V(Cur.major, Cur.minor, Cur.patch + 1)
\* a tag of the history, without its leading v, is the valid version v
InHistory(v) ==
    \E k \in 1..Len(tags) : LStrip(tags[k], "v") = v /\ ParseOK(LStrip(tags[k], "v"))

\* the positions in the history of the tags that are valid versions
ValidTags == { k \in 1..Len(tags) : ParseOK(LStrip(tags[k], "v")) }

\* bump(bump_type) was called on a project whose current version is known
BumpCalled == pc \in {"lib_bumped", "lib_raised"} /\ Truthy(project.version)

\* C1: Project.bump never returns a version that is in the version history
\* (the valid versions of all tags): when the incremented version is in the
\* history, bump returns None and not that version.
C1_BumpNeverReturnsTaggedVersion ==
    BumpCalled =>
        /\ (pc = "lib_bumped" /\ new_version # NoneVal => ~InHistory(new_version))
        /\ (InHistory(Incremented) => pc = "lib_bumped" /\ new_version = NoneVal)

\* C2: for a valid current version (major, minor, patch) whose increment is
\* not in the history, bump returns (major, minor, patch + 1) for the class
\* patch, (major, minor + 1, 0) for minor and (major + 1, 0, 0) for major.
C2_BumpIncrementsAndResets ==
    (BumpCalled /\ ~InHistory(Incremented)) =>
        /\ pc = "lib_bumped"
        /\ ParseOK(new_version)
        /\ Parse(new_version).prerelease = NoneVal /\ Parse(new_version).build = NoneVal
        /\ LET new == Parse(new_version)
           IN  CASE args.bump_type = "p" ->
                      new.major = Cur.major /\ new.minor = Cur.minor
                      /\ new.patch = Cur.patch + 1
                 [] args.bump_type = "n" ->
                      new.major = Cur.major /\ new.minor = Cur.minor + 1
                      /\ new.patch = 0
                 [] args.bump_type = "m" ->
                      new.major = Cur.major + 1 /\ new.minor = 0 /\ new.patch = 0

(***************************************************************************)
(* Properties of run().                                                    *)
(***************************************************************************)
\* the Project has been constructed, so that project.version is resolved
Constructed == pc # "run" /\ ~(pc = "raised" /\ branch = "none")
\* the invocation requests a bump class (-t)
BumpClass == args.bump_type # NoBump
\* the current version is known
VersionKnown == Truthy(project.version)
\* the invocation found uncommitted changes
StartDirty == is_dirty(start.head, start.work)
\* run() has ended with the error message kind and a non-zero status
FailedWith(kind) == error = kind /\ exit_code # 0 /\ exit_code # -1

\* C3 as stated: every invocation that requests a bump class with a known
\* current version, on a dirty tree and without the stash opt-in, touches
\* nothing and ends with the DirtyWorkingTree error.
C3_AsStated ==
    (Constructed /\ BumpClass /\ VersionKnown /\ StartDirty /\ ~args.stash) =>
        /\ Untouched
        /\ (pc = "done" => FailedWith(DirtyWorkingTree))

\* C3 (amended): every invocation without the show-version flag that requests
\* a bump class with a known current version, on a dirty tree and without the
\* stash opt-in, rewrites no file, performs no stash, commit, tag or push, never
\* calls bump, and ends with the DirtyWorkingTree error and a non-zero status.
C3_DirtyTreeStops ==
    (Constructed /\ BumpClass /\ args.version = NoneVal /\ VersionKnown
        /\ StartDirty /\ ~args.stash) =>
        /\ Untouched /\ ~Did("bump")
        /\ pc \in {"show_version", "dispatch", "check_error", "done"}
        /\ (pc = "done" => FailedWith(DirtyWorkingTree))

C3_Witness ==
    /\ pc = "done" /\ BumpClass /\ args.version = NoneVal /\ VersionKnown
    /\ StartDirty /\ ~args.stash
    /\ error = DirtyWorkingTree /\ exit_code = 1

\* C4: an invocation that requests a bump class with a known current version
\* on a dirty tree with the stash opt-in stashes, then bumps and runs the
\* rewrite waves: it ends Bumped or with RewriteNotFound, never with status 0
\* without the rewrite attempted.
C4_StashThenBump ==
    (pc = "done" /\ BumpClass /\ args.version = NoneVal /\ VersionKnown
        /\ StartDirty /\ args.stash) =>
        /\ Did("stash") /\ Did("bump") /\ Did("wave1")
        /\ (project.bumped \/ FailedWith(RewriteNotFound))
        /\ (exit_code = 0 => Did("wave1"))

\* C5: the tag created after a successful bump from X to Y is the tag format
\* applied to the new version Y, with the tag message format applied to Y.
C5_TagOfNewVersion ==
    (branch = "bump" /\ Did("tag")) =>
        created = << [tag_text |-> Format(args.tag_format, new_version),
                      message |-> Format(args.tag_msg_format, new_version)] >>

\* one step of run() in the rewrite stage
WaveStep ==
    /\ pc = "wave1" =>
        /\ ops' = Append(ops, "wave1")
        /\ pc' = "wave2" <=> ~is_dirty(head', work')
        /\ pc' # "wave2" => (pc' = "check_error" /\ error' = NoneVal /\ project'.bumped)
    /\ pc = "wave2" =>
        /\ ops' = Append(ops, "wave2")
        /\ pc' = "check_error"
        /\ ~is_dirty(head', work') => (error' = RewriteNotFound /\ ~project'.bumped)
        /\ is_dirty(head', work') => (error' = NoneVal /\ project'.bumped)
    /\ (pc \notin {"wave1", "wave2"} /\ ops' # ops) =>
        ops'[Len(ops')] \notin {"wave1", "wave2"}
\* wave 2 never comes first, and RewriteNotFound ends the invocation
WaveOutcome ==
    /\ \A k \in 1..Len(ops) : ops[k] = "wave2" => (k > 1 /\ ops[k - 1] = "wave1")
    /\ error = RewriteNotFound =>
        /\ pc \in {"check_error", "done"}
        /\ ~project.bumped
        /\ commits = <<>> /\ created = <<>> /\ head = start.head /\ tags = start.tags
        /\ ~Did("add") /\ ~Did("commit") /\ ~Did("tag") /\ ~Did("push")
        /\ (pc = "done" => exit_code = 1)

\* C6: in the rewrite stage wave 1 is run first; wave 2 is run if and only if
\* the tree is still clean after wave 1; if it is still clean after wave 2 the
\* invocation fails with RewriteNotFound, bumped false, and commits, tags and
\* pushes nothing.
C6_WaveFallback == [][WaveStep]_vars /\ []WaveOutcome

\* the error the claims call VersionAlreadyExists
VersionAlreadyExists == <<"VersionAlreadyExists">>

\* C7: when the bumped version collides with the history, the invocation ends
\* with the VersionAlreadyExists error, an outcome other than RewriteNotFound
\* and success, and rewrites, commits, tags and pushes nothing.
C7_CollisionStops ==
    (pc = "done" /\ branch = "bump" /\ InHistory(Incremented)) =>
        /\ FailedWith(VersionAlreadyExists)
        /\ error # RewriteNotFound
        /\ work = start.work /\ commits = <<>> /\ created = <<>> /\ ~Did("push")

\* C8: every invocation on a directory, without the show-version flag, that
\* requests a bump class while no tag of the repository is a valid version
\* fails with NoTagsYet and a non-zero status, whatever the dirty state and
\* the stash flag are; bump is never called, no file is rewritten, nothing is
\* stashed, committed, tagged or pushed.
C8_NoTagsYetStops ==
    (/\ pc # "run" /\ IsDir(args.dir)
     /\ BumpClass /\ args.version = NoneVal /\ ValidTags = {}) =>
        /\ Untouched /\ ~Did("bump")
        /\ pc \in {"show_version", "dispatch", "check_error", "done"}
        /\ (pc = "done" => FailedWith(NoTagsYet))

\* the invocation gives an explicit target version (--set) with some text
ExplicitVersion == args.version \notin {NoneVal, TrueVal, EmptyStr}

\* C9: an invocation whose explicit target version (--set) does not parse as
\* a semantic version ends with the InvalidVersion error and a non-zero
\* status, and rewrites no file.
C9_InvalidSetFails ==
    (ExplicitVersion /\ ~ParseOK(args.version)) =>
        /\ work = start.work
        /\ (pc = "done" => FailedWith(InvalidVersion))

\* C10: on a clean repository without a valid tag, an invocation with a valid
\* explicit target version V runs set_versions with V (the current version
\* being unknown) before it ends, and a requested tag is built from V.
C10_SetReachesRewrite ==
    (pc = "done" /\ ExplicitVersion /\ ParseOK(args.version) /\ ~BumpClass
        /\ ~StartDirty /\ ~VersionKnown) =>
        /\ Did("wave1")
        /\ (args.tag =>
                created = << [tag_text |-> Format(args.tag_format, args.version),
                              message |-> Format(args.tag_msg_format, args.version)] >>)

(***************************************************************************)
(* The downstream stage of run(): commit, unstash, tag, push.              *)
(***************************************************************************)
\* run() is in, or has ended in, the downstream stage (main.py:133-158)
ReachedDownstream ==
    \/ pc \in {"commit", "unstash", "tag", "push", "exit"}
    \/ /\ pc = "done" /\ ~Did("show_version")
       /\ error \in {NoneVal, NothingToTag, NothingToPush}

\* C11: in every invocation that reaches the downstream stage while bumped is
\* false, a requested tag is never created and a requested push is never
\* performed: run() ends with a non-zero status and the NothingToTag or the
\* NothingToPush error, never with status 0.
C11_NothingToTagOrPush ==
    (ReachedDownstream /\ ~project.bumped) =>
        /\ args.tag =>
              /\ ~Did("tag") /\ created = <<>> /\ tags = start.tags
              /\ pc \notin {"push", "exit"}
              /\ (pc = "done" => FailedWith(NothingToTag))
        /\ args.push =>
              /\ ~Did("push") /\ pc # "exit"
              /\ (pc = "done" =>
                     FailedWith(NothingToTag) \/ FailedWith(NothingToPush))
        /\ (~args.tag /\ args.push /\ pc = "done") => FailedWith(NothingToPush)

C11_Witness ==
    /\ pc = "done" /\ ~project.bumped /\ branch = "stash" /\ VersionKnown
    /\ args.tag /\ args.push /\ Did("unstash")
    /\ error = NothingToTag /\ exit_code = 1 /\ created = <<>>

\* C12: whenever the show-version flag is given, run() reports the version of
\* the tool and exits with status 0, and rewrites, stashes, commits, tags and
\* pushes nothing, whatever the repository and the other options are.
C12_ShowVersionOnly ==
    (args.version = TrueVal /\ IsDir(args.dir)) =>
        /\ Untouched /\ ~Did("bump")
        /\ pc \in {"run", "show_version", "done"}
        /\ (pc = "done" =>
               ops = <<"show_version">> /\ exit_code = 0 /\ error = NoneVal)

\* the downstream side effects, in the order they were performed
IsDownstreamOp(op) == op \in {"add", "commit", "tag", "push"}
DownstreamOps == SelectSeq(ops, IsDownstreamOp)

\* C13: the downstream steps occur at most once each, in the order add and
\* commit, tag, push; add, commit and push occur only when bumped is true,
\* commit only when commit is not skipped, and the commit message is the
\* commit message format applied to the new version.
C13_DownstreamOrder ==
    /\ DownstreamOps \in
          { a \o t \o p : a \in {<<>>, <<"add", "commit">>},
                          t \in {<<>>, <<"tag">>}, p \in {<<>>, <<"push">>} }
    /\ Did("commit") =>
          /\ project.bumped /\ ~args.skip_commit
          /\ commits = <<Format(args.commit_msg_format, new_version)>>
    /\ ~Did("commit") => commits = <<>>
    /\ Did("push") => project.bumped /\ args.push

C13_Witness ==
    /\ pc = "done" /\ exit_code = 0
    /\ DownstreamOps = <<"add", "commit", "tag", "push">>
    /\ project.version = V(1, 0, 0) /\ new_version = V(1, 0, 1)
    /\ commits = <<Format(DEFAULT_COMMIT_MSG_FMT, V(1, 0, 1))>>

(***************************************************************************)
(* The assignments of self.bumped.                                         *)
(***************************************************************************)
\* the waves run() has called set_versions for, in order
WavesRun ==
    IF Did("wave2") THEN <<1, 2>> ELSE IF Did("wave1") THEN <<1>> ELSE <<>>
\* the rewrite stage of the invocation is over
WavesOver == pc \in {"check_error", "commit", "unstash", "tag", "push", "exit", "done"}

\* C14 as stated: the bumped flag is assigned exactly once in an invocation
\* that rewrites, only after all its waves, and never between wave 1 and
\* wave 2.
C14_AsStated ==
    /\ pc = "wave2" => assigned = <<>>
    /\ (WavesOver /\ Did("wave1")) => Len(assigned) = 1

\* a command of the wave that was called last failed, and its exception
\* ended set_versions and run()
WaveRaised == pc = "raised" /\ exception = CalledProcessError
\* the waves whose set_versions call has returned, in order
WavesReturned ==
    IF WaveRaised THEN SubSeq(WavesRun, 1, Len(WavesRun) - 1) ELSE WavesRun

\* every assignment of bumped is the last statement of a set_versions call
\* that returns: it happens in the step of that wave and stores is_dirty of
\* the tree the wave left; a call that raises assigns nothing, and bumped
\* changes in no other step
AssignedStep ==
    /\ assigned' # assigned =>
          \E wave \in {1, 2} :
             /\ ops' = Append(ops, IF wave = 1 THEN "wave1" ELSE "wave2")
             /\ assigned' = Append(assigned, wave)
             /\ project'.bumped = is_dirty(head, work')
             /\ exception' = NoneVal /\ pc' # "raised"
    /\ (pc # "run" /\ project'.bumped # project.bumped) => assigned' # assigned
\* bumped has been assigned once for each wave whose call was made with a
\* new version and has returned, and never when the new version is None
AssignedPerWave ==
    assigned = IF Truthy(new_version) THEN WavesReturned ELSE <<>>

\* C14 (amended): the bumped flag is assigned once at the end of every
\* set_versions call that is made with a new version and returns: after
\* wave 1, and once more after wave 2 when wave 2 runs; a call that a failing
\* command ends with an exception does not assign it; it is assigned nowhere
\* else, and not at all when the new version is None.
C14_AssignedAfterEachWave == [][AssignedStep]_vars /\ []AssignedPerWave

C14_Witness ==
    /\ pc = "done" /\ assigned = <<1, 2>> /\ project.bumped
    /\ ops = <<"bump", "wave1", "wave2", "add", "commit">> /\ exit_code = 0

(***************************************************************************)
(* The current version resolved by Project(dir_).                          *)
(***************************************************************************)
LastOf(S) == CHOOSE k \in S : \A j \in S : j <= k
\* Project(dir_) was called on a directory
LibConstructed == pc # "lib" /\ IsDir(args.dir)

\* C15: when the history has a tag that is a valid version, the
\* current version is the version of the most recent valid tag, also when
\* the most recent tag is not valid; it is None only when no tag is valid.
C15_MostRecentValidTag ==
    LibConstructed =>
        /\ pc # "lib_no_project"
        /\ IF ValidTags # {}
           THEN project.version = LStrip(tags[LastOf(ValidTags)], "v")
           ELSE project.version = NoneVal


(***************************************************************************)
(* Properties of Project.set_versions.                                     *)
(***************************************************************************)
\* set_versions was called with a new version and has returned or raised
SetCalled == pc \in {"lib_set", "lib_set_raised"} /\ Truthy(new_version)
\* the wave set_versions was called for
CalledWave == IF Did("wave1") THEN 1 ELSE 2
\* the candidate files of that call
CalledCandidates == gen_versioned_files(project.file, FileNames, CalledWave)

\* C16: a failure of the shell primitive on one candidate file, with the
\* current version known as well as unknown, counts as no rewrite of that
\* file: set_versions does not raise, rewrites every other candidate of the
\* wave and assigns bumped at the end of the wave.
C16_FailureSkipsFile ==
    SetCalled =>
        /\ pc = "lib_set"
        /\ assigned = <<CalledWave>>
        /\ project.bumped = is_dirty(head, work)
        /\ \A f \in FileNames :
              work[f] = IF f \in CalledCandidates /\ faults[f] = "ok"
                        THEN RewriteFile(head[f], project.version, new_version)
                        ELSE head[f]

\* C17: with the current version known, every line without the text
\* "version" is the same before and after the rewrite, also when it has the
\* old version in it; a file without a line with "version" is unchanged.
C17_OtherLinesUnchanged ==
    (SetCalled /\ VersionKnown) =>
        \A f \in FileNames :
            /\ Len(work[f]) = Len(head[f])
            /\ \A n \in 1..Len(head[f]) :
                  ~Contains(head[f][n], VERSION_WORD) => work[f][n] = head[f][n]
            /\ (\A n \in 1..Len(head[f]) : ~Contains(head[f][n], VERSION_WORD))
                  => work[f] = head[f]

C17_Witness ==
    /\ pc = "lib_set" /\ VersionKnown /\ CalledWave = 1
    /\ head[SETUP_PY] = <<NoteLine(V(1, 0, 0)), DeclLine(V(1, 0, 0))>>
    /\ work[SETUP_PY] = <<NoteLine(V(1, 0, 0)), DeclLine(V(1, 0, 1))>>
    /\ project.bumped

RECURSIVE SubstLiteral(_, _, _, _)
\* line with every substring equal to old replaced by new, from position i on
SubstLiteral(line, i, old, new) ==
    IF i > Len(line) THEN <<>>
    ELSE IF old # <<>> /\ LiteralAt(line, i, old)
         THEN new \o SubstLiteral(line, i + Len(old), old, new)
         ELSE <<line[i]>> \o SubstLiteral(line, i + 1, old, new)

\* C18: with the current version known, the only text replaced on a line
\* with "version" is substrings equal character for character to the
\* current version (a dot of the version matches a dot only): text such as
\* 1x0y0 stays when the current version is 1.0.0.
C18_LiteralMatchOnly ==
    (pc = "lib_set" /\ Truthy(new_version) /\ VersionKnown) =>
        \A f \in CalledCandidates : \A n \in 1..Len(head[f]) :
            Contains(head[f][n], VERSION_WORD) =>
                work[f][n] = SubstLiteral(head[f][n], 1, project.version, new_version)

\* a pattern of three groups of one or more digits between dots starts at i
StrictDottedAt(line, i) ==
    LET d1 == DigitRun(line, i)
        d2 == DigitRun(line, i + d1 + 1)
        d3 == DigitRun(line, i + d1 + 1 + d2 + 1)
    IN  /\ d1 >= 1 /\ d2 >= 1 /\ d3 >= 1
        /\ i + d1 + 1 + d2 <= Len(line)
        /\ line[i + d1] = "." /\ line[i + d1 + 1 + d2] = "."
\* the line has "version" and a dotted pattern with a digit in every group
Qualifies(line) ==
    Contains(line, VERSION_WORD) /\ \E i \in 1..Len(line) : StrictDottedAt(line, i)

\* C19: with the current version unknown, the only line of a file that is
\* modified is the first line with "version" and a dotted pattern with at
\* least one digit in each of its three groups; a file without such a line
\* is unchanged.
C19_FirstQualifyingLine ==
    (SetCalled /\ ~VersionKnown) =>
        \A f \in FileNames :
            /\ Len(work[f]) = Len(head[f])
            /\ \A n \in 1..Len(head[f]) :
                  work[f][n] # head[f][n] =>
                      /\ Qualifies(head[f][n])
                      /\ \A m \in 1..(n - 1) : ~Qualifies(head[f][m])

RECURSIVE SubstFirstDotted(_, _, _)
\* sed s/[0-9]*\.[0-9]*\.[0-9]*/rep/ on one line: the first match only
SubstFirstDotted(line, i, rep) ==
    IF i > Len(line) THEN <<>>
    ELSE IF DottedAt(line, i) >= 0
         THEN rep \o SubSeq(line, i + DottedAt(line, i), Len(line))
         ELSE <<line[i]>> \o SubstFirstDotted(line, i + 1, rep)

\* C20: with the current version unknown, only the first dotted pattern of
\* the target line is replaced by the new version; a later dotted pattern of
\* that line stays as it was.
C20_FirstMatchOnly ==
    (pc = "lib_set" /\ Truthy(new_version) /\ ~VersionKnown) =>
        \A f \in CalledCandidates :
            LET hit == FirstVersionLine(NumberedLines(head[f]))
            IN  (faults[f] = "ok" /\ hit # 0) =>
                    work[f][hit] = SubstFirstDotted(head[f][hit], 1, new_version)

(***************************************************************************)
(* Stash and unstash in run().                                             *)
(***************************************************************************)
\* the positions of op in ops
Positions(op) == { k \in 1..Len(ops) : ops[k] = op }
\* every op of kind a is performed before every op of kind b
Before(a, b) == \A i \in Positions(a) : \A j \in Positions(b) : i < j
\* the files with uncommitted changes when the invocation started
StartDirtyFiles == dirty_files(start.head, start.work)

\* C21: in every invocation in which run() stashes the uncommitted changes,
\* it unstashes them exactly once before the process ends, after any add or
\* commit and before any tag or push: the stashed changes are in no commit
\* and are not left stashed at exit, also at the exits with the NothingToTag
\* and NothingToPush errors.
C21_StashIsUnstashedOnce ==
    Did("stash") =>
        /\ Cardinality(Positions("stash")) = 1
        /\ Cardinality(Positions("unstash")) <= 1
        /\ Before("stash", "unstash")
        /\ Before("add", "unstash") /\ Before("commit", "unstash")
        /\ Before("unstash", "tag") /\ Before("unstash", "push")
        /\ \A f \in StartDirtyFiles : head[f] = start.head[f]
        /\ ~Did("unstash") =>
              /\ pc \in {"check_error", "commit", "unstash"} /\ exit_code = -1
              /\ stash_stack = <<start.work>> /\ work = start.head
        /\ pc \in {"tag", "push", "exit", "done"} =>
              /\ Did("unstash") /\ stash_stack = <<>>
              /\ \A f \in StartDirtyFiles : work[f] = start.work[f]

C21_Witness ==
    /\ pc = "done" /\ StartDirty /\ args.stash /\ args.push /\ ~args.tag
    /\ Positions("stash") = {1} /\ Positions("unstash") = {2}
    /\ error = NothingToPush /\ exit_code = 1
    /\ stash_stack = <<>> /\ work = start.work /\ head = start.head

=============================================================================
